---- MODULE Spec2Model ----
(***************************************************************************)
(* CloudwatchLogs (shared_lib/aws/logs.py): the batch accumulator and the  *)
(* sequence-token retry engine of one logger instance, against a remote    *)
(* whose answers are not under the instance's control.                     *)
(*                                                                         *)
(* One step of the model is the local computation of the instance between  *)
(* two remote interactions: a public call runs until it returns, raises or *)
(* has issued a remote request; the answer of the remote (a response or an *)
(* exception) resumes the code until the next request, return or raise.    *)
(*                                                                         *)
(* Sequence tokens are opaque non-empty strings, so Python's truthiness    *)
(* test `if self.__sequence_token` separates None from every token.        *)
(***************************************************************************)
EXTENDS Integers, Sequences, FiniteSets, TLC

\* ------------------------------------------------------------- bounds
MaxCalls == 4
MaxBatchSize == 2
MaxAttempts == 2
MaxBackoffMultiplier == 2
MaxWriters == 3

\* __init__ default (line 39)
DefaultBackoffMultiplier == 10

\* ------------------------------------------------------------ domains
NoToken == "None"
NoField == "absent"
Tokens == {"T1", "T2"}

\* put_log_events either raises or returns one of these response dicts
PutResponses == [HTTPStatusCode : {200, 500}, nextSequenceToken : Tokens \cup {NoField}]

\* describe_log_streams either raises or returns logStreams[0], with or
\* without the key uploadSequenceToken
DescribeStreams == {NoField} \cup Tokens

\* Strings that are compared after str.upper() / str.lower() are sequences of
\* ASCII code points, so that the case conversions are computed.
DEBUG == <<68, 69, 66, 85, 71>>
INFO == <<73, 78, 70, 79>>
WARNING == <<87, 65, 82, 78, 73, 78, 71>>
WARN == <<87, 65, 82, 78>>
ERROR == <<69, 82, 82, 79, 82>>
CRITICAL == <<67, 82, 73, 84, 73, 67, 65, 76>>
info_lower == <<105, 110, 102, 111>>
WRONG_LEVEL == <<87, 82, 79, 78, 71, 95, 76, 69, 86, 69, 76>>

\* every way of writing a name in upper and lower case letters
RECURSIVE CaseVariants(_)
CaseVariants(name) ==
    IF name = <<>> THEN {<<>>}
    ELSE {<<c>> \o rest : c \in {Head(name), Head(name) + 32},
                          rest \in CaseVariants(Tail(name))}

\* configured levels tried by the level functions: the recognised names in
\* every letter case, and strings that are no level name
LevelStrings ==
    UNION {CaseVariants(n) : n \in {DEBUG, INFO, WARNING, WARN, ERROR, CRITICAL}}
      \cup {WRONG_LEVEL, <<>>, <<87, 114, 111, 110, 103>>, <<68, 69, 66, 85>>, <<73, 78, 70, 79, 32>>}

\* the log methods pass these literals (256, 262, 268, 274, 280)
MessageLevels == {DEBUG, INFO, WARNING, ERROR, CRITICAL}
ConfigLevels == {info_lower, WARNING, WRONG_LEVEL}

VARIABLES
    log_level, use_batches, batch_size, max_attempts, backoff_multiplier,
    batched_messages, sequence_token, base_event_log,
    pc, caller, attempt,
    nCalls, lastOp, lastResult, recorded, callBuf,
    callPuts, callRaises, callDescribes, totalPuts,
    anyFailure, flushed, adopted, everHeld, dropped,
    lastSleep, callSlept,
    probe_input, probe_level, probe_out,
    group_exists, group_retention, group_tags, stream_exists,
    remote_calls, create_out,
    writers, w_pc, w_attempt, w_token, w_log, w_puts, w_result,
    stream_token, stream_events

\* one logger instance
config == <<log_level, use_batches, batch_size, max_attempts, backoff_multiplier>>
instance == <<batched_messages, sequence_token, base_event_log>>
control == <<pc, caller, attempt>>
history == <<nCalls, lastOp, lastResult, recorded, callBuf, callPuts, callRaises,
             callDescribes, totalPuts, anyFailure, flushed, adopted, everHeld, dropped,
             lastSleep, callSlept>>
logger == <<config, instance, control, history>>

\* the level functions applied to one input
levels_probe == <<probe_input, probe_level, probe_out>>

\* the remote log group and log stream, and the last create_* call
remote_group == <<group_exists, group_retention, group_tags, stream_exists,
                  remote_calls, create_out>>

\* several writer instances appending to one remote stream
race == <<writers, w_pc, w_attempt, w_token, w_log, w_puts, w_result,
          stream_token, stream_events>>

elsewhere == <<levels_probe, remote_group, race>>
vars == <<logger, elsewhere>>

\* ------------------------------------------------------ pure functions
\* str.upper() and str.lower() on ASCII strings
str_upper_identity(s) == s

upper_char(c) == IF c \in 97..122 THEN c - 32 ELSE c

lower_char(c) == IF c \in 65..90 THEN c + 32 ELSE c

str_upper(s) == [i \in 1..Len(s) |-> upper_char(s[i])]

str_lower(s) == [i \in 1..Len(s) |-> lower_char(s[i])]

level_lookup ==
    [l \in {CRITICAL, ERROR, WARNING, WARN, INFO, DEBUG} |->
        CASE l = CRITICAL -> 50
          [] l = ERROR -> 40
          [] l = WARNING -> 30
          [] l = WARN -> 30
          [] l = INFO -> 20
          [] l = DEBUG -> 10]

LevelIsKnown_case_sensitive(configured) == configured \in DOMAIN level_lookup

\* line 226
LevelIsKnown(configured) == str_upper(configured) \in DOMAIN level_lookup

should_record_log_reversed(level, configured) ==
    level_lookup[str_upper(level)] <= level_lookup[str_upper(configured)]

\* line 229
should_record_log(level, configured) ==
    level_lookup[str_upper(level)] >= level_lookup[str_upper(configured)]

\* base_logger.py line 13
valid_levels ==
    {<<100, 101, 98, 117, 103>>, <<105, 110, 102, 111>>,
     <<119, 97, 114, 110, 105, 110, 103>>, <<101, 114, 114, 111, 114>>,
     <<99, 114, 105, 116, 105, 99, 97, 108>>}

validate_raises_exact_match(input) ==
    input.type # "str" \/ input.value \notin valid_levels

\* base_logger.py line 14: the ValueError branch
validate_raises(input) ==
    input.type # "str" \/ str_lower(input.value) \notin valid_levels

\* BaseLogger.validate_log_level (base_logger.py 6-17)
validate_log_level(input) ==
    IF validate_raises(input)
      THEN [op |-> "validate_log_level", raised |-> TRUE, value |-> <<>>]
      ELSE [op |-> "validate_log_level", raised |-> FALSE,
            value |-> str_upper(input.value)]

\* __should_record_log (211-229) on an instance configured with `configured`
should_record_outcome(level, configured) ==
    IF ~LevelIsKnown(configured)
      THEN [op |-> "should_record_log", raised |-> TRUE, value |-> FALSE]
      ELSE [op |-> "should_record_log", raised |-> FALSE,
            value |-> should_record_log(level, configured)]

request_is_valid_status_only(response) == response.HTTPStatusCode = 200

request_is_valid_token_only(response) == response.nextSequenceToken # NoField

\* __request_is_valid (169-178)
request_is_valid(response) ==
    response.HTTPStatusCode = 200 /\ response.nextSequenceToken # NoField

send_log_always_attaches(log, tok) == [log EXCEPT !.sequenceToken = tok]

\* __send_log: the request is base_event_log itself, after the held token,
\* if any, has been written into it
send_log(log, tok) ==
    IF tok # NoToken THEN [log EXCEPT !.sequenceToken = tok] ELSE log

adopt_token_forgotten(response, tok) == tok

\* line 146: the token held after a validated response
adopt_token(response, tok) == response.nextSequenceToken

refresh_token_ignored(stream, tok) == tok

refresh_token_cleared(stream, tok) == IF stream # NoField THEN stream ELSE NoToken

\* line 165-166: the token held after a describe_log_streams answer
refresh_token(stream, tok) == IF stream # NoField THEN stream ELSE tok

flush_guard_off_by_one(batched) == batched >= 0

\* line 93: flush sends only when the counter is positive
flush_guard(batched) == batched > 0

batch_is_full_strict(batched, size) == batched > size

\* line 113: the counter has reached the batch size
batch_is_full(batched, size) == batched = size

waiting_seconds_constant(att, multiplier) == multiplier

\* line 140
waiting_seconds(att, multiplier) == att * multiplier

\* line 138 and line 149
loop_continues_strict(att, max) == att < max

loop_continues(att, max) == att <= max

budget_spent_late(att, max) == att > max + 1

budget_spent(att, max) == att > max

Range(s) == {s[i] : i \in 1..Len(s)}

\* --------------------------------------------------------------- Init
\* __init__ (lines 40-52); the constructor arguments range over small sets
InstanceInit(levels, batches, sizes, attempts, multipliers) ==
    /\ log_level \in levels
    /\ use_batches \in batches
    /\ batch_size \in sizes
    /\ max_attempts \in attempts
    /\ backoff_multiplier \in multipliers
    /\ batched_messages = 0
    /\ sequence_token = NoToken
    /\ base_event_log = [logEvents |-> <<>>, sequenceToken |-> NoField]
    /\ pc = "idle"
    /\ caller = "none"
    /\ attempt = 0
    /\ nCalls = 0
    /\ lastOp = "init"
    /\ lastResult = "init"
    /\ recorded = 0
    /\ callBuf = <<>>
    /\ callPuts = 0
    /\ callRaises = 0
    /\ callDescribes = 0
    /\ totalPuts = 0
    /\ anyFailure = FALSE
    /\ flushed = FALSE
    /\ adopted = NoToken
    /\ everHeld = FALSE
    /\ dropped = {}
    /\ lastSleep = 0
    /\ callSlept = 0

\* the parts of the state a specification does not exercise stay as they are
ProbeIdle ==
    /\ probe_input = [type |-> "str", value |-> <<>>]
    /\ probe_level = DEBUG
    /\ probe_out = [op |-> "none", raised |-> FALSE, value |-> <<>>]

GroupIdle ==
    /\ group_exists = FALSE
    /\ group_retention = 0
    /\ group_tags = {}
    /\ stream_exists = FALSE
    /\ remote_calls = <<>>
    /\ create_out = [op |-> "none"]

RaceIdle ==
    /\ writers = {}
    /\ w_pc = <<>>
    /\ w_attempt = <<>>
    /\ w_token = <<>>
    /\ w_log = <<>>
    /\ w_puts = <<>>
    /\ w_result = <<>>
    /\ stream_token = NoField
    /\ stream_events = <<>>

Init ==
    /\ InstanceInit(ConfigLevels, BOOLEAN, 1..MaxBatchSize, 0..MaxAttempts,
                    {DefaultBackoffMultiplier})
    /\ ProbeIdle
    /\ GroupIdle
    /\ RaceIdle

\* ------------------------------------------- control flow of one call
\* The caller's statements after __send_log_with_retry() has returned:
\* flush (95-96), _handler with batches (115), _handler without (120).
Returned(c, result, log, batched) ==
    /\ pc' = "idle"
    /\ caller' = c
    /\ lastResult' = result
    /\ batched_messages' = IF c \in {"flush", "handler_batch"} THEN 0 ELSE batched
    /\ base_event_log' = IF c \in {"flush", "handler_single"}
                           THEN [log EXCEPT !.logEvents = <<>>]
                           ELSE log

\* An exception leaves __send_log_with_retry and its caller: nothing after
\* the call site runs. `dropped` remembers the events of the batches whose
\* submission ended in the terminal error.
Escaped(c, result, log, batched) ==
    /\ pc' = "idle"
    /\ caller' = c
    /\ lastResult' = result
    /\ batched_messages' = batched
    /\ base_event_log' = log
    /\ dropped' = IF result = "terminal"
                     THEN dropped \cup Range(log.logEvents)
                     ELSE dropped

\* Top of the while loop (138-142) with the local `attempt` = att: either
\* the next put_log_events request goes out, or the loop ends and the
\* function returns None.
LoopHead(c, att, log, batched, tok, puts) ==
    IF loop_continues(att, max_attempts)
      THEN /\ pc' = "put_log_events"
           /\ caller' = c
           /\ attempt' = att + 1
           /\ base_event_log' = send_log(log, tok)
           /\ batched_messages' = batched
           /\ callPuts' = puts + 1
           /\ totalPuts' = totalPuts + 1
           /\ lastResult' = "pending"
      ELSE /\ Returned(c, "returned_none", log, batched)
           /\ attempt' = att
           /\ callPuts' = puts
           /\ totalPuts' = totalPuts

\* __send_log_with_retry entered from a public call
Submit(c, log, batched) ==
    /\ LoopHead(c, 0, log, batched, sequence_token, 0)
    /\ callRaises' = 0
    /\ callDescribes' = 0
    /\ lastSleep' = 0
    /\ callSlept' = 0

NoSubmit(result, log, batched) ==
    /\ lastResult' = result
    /\ base_event_log' = log
    /\ batched_messages' = batched
    /\ callPuts' = 0
    /\ callRaises' = 0
    /\ callDescribes' = 0
    /\ lastSleep' = 0
    /\ callSlept' = 0
    /\ UNCHANGED <<control, totalPuts>>

\* -------------------------------------------------------- public calls
\* debug / info / warning / error / critical (255-283) and _handler (98-121)
Log(level) ==
    /\ pc = "idle"
    /\ nCalls < MaxCalls
    /\ nCalls' = nCalls + 1
    /\ lastOp' = "log"
    /\ callBuf' = base_event_log.logEvents
    /\ UNCHANGED <<config, elsewhere, sequence_token, anyFailure, flushed, adopted, everHeld, dropped>>
    /\ IF ~LevelIsKnown(log_level)
         THEN /\ NoSubmit("level_error", base_event_log, batched_messages)
              /\ recorded' = recorded
         ELSE IF ~should_record_log(level, log_level)
         THEN /\ NoSubmit("filtered", base_event_log, batched_messages)
              /\ recorded' = recorded
         ELSE LET appended == [base_event_log EXCEPT
                                  !.logEvents = Append(@, recorded + 1)]
              IN  /\ recorded' = recorded + 1
                  /\ IF use_batches
                       THEN IF batch_is_full(batched_messages + 1, batch_size)
                              THEN Submit("handler_batch", appended, batched_messages + 1)
                              ELSE NoSubmit("buffered", appended, batched_messages + 1)
                       ELSE Submit("handler_single", appended, batched_messages)

\* flush (89-96)
Flush ==
    /\ pc = "idle"
    /\ nCalls < MaxCalls
    /\ nCalls' = nCalls + 1
    /\ lastOp' = "flush"
    /\ callBuf' = base_event_log.logEvents
    /\ flushed' = TRUE
    /\ UNCHANGED <<config, elsewhere, sequence_token, anyFailure, adopted, everHeld, dropped, recorded>>
    /\ IF flush_guard(batched_messages)
         THEN Submit("flush", base_event_log, batched_messages)
         ELSE NoSubmit("noop", base_event_log, batched_messages)

\* ------------------------------------------------- answers of the remote
\* put_log_events raises (148-153): terminal error, or sleep and refresh
PutRaises ==
    /\ pc = "put_log_events"
    /\ anyFailure' = TRUE
    /\ callRaises' = callRaises + 1
    /\ UNCHANGED <<config, elsewhere, nCalls, lastOp, recorded, callBuf, flushed,
                   sequence_token, adopted, everHeld, attempt, callPuts, totalPuts>>
    /\ IF budget_spent(attempt, max_attempts)
         THEN /\ Escaped(caller, "terminal", base_event_log, batched_messages)
              /\ callDescribes' = callDescribes
              /\ UNCHANGED <<lastSleep, callSlept>>
         ELSE \* time.sleep(waiting_seconds), then the refresh query goes out
              /\ pc' = "describe_log_streams"
              /\ lastSleep' = waiting_seconds(attempt, backoff_multiplier)
              /\ callSlept' = callSlept + waiting_seconds(attempt, backoff_multiplier)
              /\ callDescribes' = callDescribes + 1
              /\ UNCHANGED <<caller, lastResult, batched_messages,
                             base_event_log, dropped>>

\* put_log_events returns a response (142-147): validated, or the loop goes on
PutResponds(response) ==
    /\ pc = "put_log_events"
    /\ UNCHANGED <<lastSleep, callSlept>>
    /\ UNCHANGED <<config, elsewhere, nCalls, lastOp, recorded, callBuf, flushed,
                   callRaises, callDescribes, dropped>>
    /\ IF request_is_valid(response)
         THEN /\ sequence_token' = adopt_token(response, sequence_token)
              /\ adopted' = response.nextSequenceToken
              /\ everHeld' = TRUE
              /\ Returned(caller, "ok", base_event_log, batched_messages)
              /\ UNCHANGED <<attempt, anyFailure, callPuts, totalPuts>>
         ELSE /\ anyFailure' = TRUE
              /\ LoopHead(caller, attempt, base_event_log, batched_messages,
                          sequence_token, callPuts)
              /\ UNCHANGED <<sequence_token, adopted, everHeld>>

\* describe_log_streams raises inside the except clause (159): it escapes
DescribeRaises ==
    /\ pc = "describe_log_streams"
    /\ UNCHANGED <<lastSleep, callSlept>>
    /\ anyFailure' = TRUE
    /\ adopted' = NoToken
    /\ Escaped(caller, "escaped", base_event_log, batched_messages)
    /\ UNCHANGED <<config, elsewhere, nCalls, lastOp, recorded, callBuf, flushed, callRaises,
                   callDescribes, sequence_token, everHeld, attempt, callPuts,
                   totalPuts>>

\* describe_log_streams answers (159-166), then the loop goes on
DescribeResponds(stream) ==
    /\ pc = "describe_log_streams"
    /\ UNCHANGED <<lastSleep, callSlept>>
    /\ adopted' = NoToken
    /\ UNCHANGED <<config, elsewhere, nCalls, lastOp, recorded, callBuf, flushed,
                   callRaises, callDescribes, anyFailure, dropped>>
    /\ LET tok == refresh_token(stream, sequence_token)
       IN  /\ sequence_token' = tok
           /\ everHeld' = (everHeld \/ tok # NoToken)
           /\ LoopHead(caller, attempt, base_event_log, batched_messages,
                       tok, callPuts)

Next ==
    \/ \E level \in MessageLevels : Log(level)
    \/ Flush
    \/ PutRaises
    \/ \E response \in PutResponses : PutResponds(response)
    \/ DescribeRaises
    \/ \E stream \in DescribeStreams : DescribeResponds(stream)

Spec == Init /\ [][Next]_vars

\* ------------------------------------------------ the level functions
\* An instance constructed with any of LevelStrings; its level filter and
\* validate_log_level are applied to it and to non-string arguments.
LevelsInit ==
    /\ InstanceInit(LevelStrings, {FALSE}, {1}, {0}, {DefaultBackoffMultiplier})
    /\ probe_input \in {[type |-> "str", value |-> log_level],
                         [type |-> "int", value |-> <<>>],
                         [type |-> "NoneType", value |-> <<>>]}
    /\ probe_level \in MessageLevels
    /\ probe_out = [op |-> "none", raised |-> FALSE, value |-> <<>>]
    /\ GroupIdle
    /\ RaceIdle

ShouldRecordLog ==
    /\ probe_out' = should_record_outcome(probe_level, log_level)
    /\ UNCHANGED <<logger, probe_input, probe_level, remote_group, race>>

ValidateLogLevel ==
    /\ probe_out' = validate_log_level(probe_input)
    /\ UNCHANGED <<logger, probe_input, probe_level, remote_group, race>>

\* make_handler (54-60): validates the configured level and returns self
MakeHandler ==
    /\ probe_out' = [op |-> "make_handler",
                     raised |-> validate_log_level([type |-> "str",
                                                    value |-> log_level]).raised,
                     value |-> <<>>]
    /\ UNCHANGED <<logger, probe_input, probe_level, remote_group, race>>

LevelsNext ==
    \/ ShouldRecordLog
    \/ ValidateLogLevel
    \/ MakeHandler

SpecLevels == LevelsInit /\ [][LevelsNext]_vars

\* ------------------------------------ log group and log stream creation
\* The remote answers as its interface says: create_log_group and
\* create_log_stream succeed or raise ResourceAlreadyExistsException,
\* put_retention_policy and tag_log_group succeed.
RetentionInputs == {3, 4, 14, 3653}

\* `tags` is None, an empty dict or a dict; items are <<key, value>> pairs
TagInputs ==
    {[isNone |-> TRUE, items |-> {}],
     [isNone |-> FALSE, items |-> {}],
     [isNone |-> FALSE, items |-> {<<"test", "abc">>}]}

\* line 236
allowed_retention_days ==
    {1, 3, 5, 7, 14, 30, 90, 120, 150, 180, 365, 400, 545, 731, 1827, 3653}

\* line 237
retention_is_allowed(days) == days \in allowed_retention_days

tags_truthy_not_none(tags) == ~tags.isNone

\* line 72: `if tags`
tags_truthy(tags) == ~tags.isNone /\ tags.items # {}

already_exists_always_raises(raise_if_exists) == "RuntimeError"

already_exists_result_inverted(raise_if_exists) ==
    IF raise_if_exists THEN "returned" ELSE "RuntimeError"

\* lines 75-77 and 85-87: the except clause
already_exists_result(raise_if_exists) ==
    IF raise_if_exists THEN "RuntimeError" ELSE "returned"

GroupInit ==
    /\ InstanceInit({info_lower}, {FALSE}, {1}, {0}, {DefaultBackoffMultiplier})
    /\ ProbeIdle
    /\ RaceIdle
    /\ group_exists \in BOOLEAN
    /\ group_retention \in (IF group_exists THEN {0, 30} ELSE {0})
    /\ group_tags = {}
    /\ stream_exists \in BOOLEAN
    /\ remote_calls = <<>>
    /\ create_out = [op |-> "none"]

\* create_log_group (62-77) with __add_retention (231-243) and __add_tags
\* (245-253); remote_calls lists the remote calls of this call, in order
CreateLogGroup(retention_days, tags, raise_if_exists) ==
    LET out(result) == [op |-> "create_log_group", retention_days |-> retention_days,
                        tags |-> tags, raise_if_exists |-> raise_if_exists,
                        existed |-> group_exists, result |-> result]
    IN  /\ UNCHANGED <<logger, levels_probe, race, stream_exists>>
        /\ IF group_exists
             THEN \* ResourceAlreadyExistsException from the first remote call
                  /\ remote_calls' = <<"create_log_group">>
                  /\ create_out' = out(already_exists_result(raise_if_exists))
                  /\ UNCHANGED <<group_exists, group_retention, group_tags>>
             ELSE /\ group_exists' = TRUE
                  /\ IF ~retention_is_allowed(retention_days)
                       THEN /\ remote_calls' = <<"create_log_group">>
                            /\ create_out' = out("ValueError")
                            /\ UNCHANGED <<group_retention, group_tags>>
                       ELSE /\ group_retention' = retention_days
                            /\ IF tags_truthy(tags)
                                 THEN /\ remote_calls' = <<"create_log_group",
                                                           "put_retention_policy",
                                                           "tag_log_group">>
                                      /\ group_tags' = tags.items
                                 ELSE /\ remote_calls' = <<"create_log_group",
                                                           "put_retention_policy">>
                                      /\ group_tags' = group_tags
                            /\ create_out' = out("returned")

\* create_log_stream (79-87)
CreateLogStream(raise_if_exists) ==
    LET out(result) == [op |-> "create_log_stream", raise_if_exists |-> raise_if_exists,
                        existed |-> stream_exists, result |-> result]
    IN  /\ UNCHANGED <<logger, levels_probe, race, group_exists, group_retention,
                       group_tags>>
        /\ remote_calls' = <<"create_log_stream">>
        /\ IF stream_exists
             THEN /\ create_out' = out(already_exists_result(raise_if_exists))
                  /\ stream_exists' = stream_exists
             ELSE /\ create_out' = out("returned")
                  /\ stream_exists' = TRUE

GroupNext ==
    \/ \E retention_days \in RetentionInputs, tags \in TagInputs,
          raise_if_exists \in BOOLEAN :
            CreateLogGroup(retention_days, tags, raise_if_exists)
    \/ \E raise_if_exists \in BOOLEAN : CreateLogStream(raise_if_exists)

SpecGroup == GroupInit /\ [][GroupNext]_vars

\* ------------------------------------- several writers, one log stream
\* Each writer is an instance of its own (class docstring, 20-33) that
\* submits one batch through __send_log_with_retry. The remote appends a
\* batch only if the request carries the stream's current token (no token
\* for a stream that is still empty) and raises otherwise; an accepted put
\* gives the stream a new token, which describe_log_streams reports.
BatchOf(w) == << <<w, 1>>, <<w, 2>> >>

RaceToken(k) == ToString(k)

Accepted == {w \in writers : w_result[w] = "ok"}

RaceInit ==
    /\ InstanceInit({info_lower}, {TRUE}, {1}, 0..MaxAttempts,
                    {DefaultBackoffMultiplier})
    /\ ProbeIdle
    /\ GroupIdle
    /\ writers \in {1..n : n \in 1..MaxWriters}
    /\ w_pc = [w \in writers |-> "ready"]
    /\ w_attempt = [w \in writers |-> 0]
    /\ w_token = [w \in writers |-> NoToken]
    /\ w_log = [w \in writers |-> [logEvents |-> BatchOf(w), sequenceToken |-> NoField]]
    /\ w_puts = [w \in writers |-> 0]
    /\ w_result = [w \in writers |-> "pending"]
    /\ stream_token = NoField
    /\ stream_events = <<>>

\* top of the while loop (138-142) of writer w, with `attempt` = att and
\* the held token tok
RaceLoopHead(w, att, tok) ==
    /\ w_token' = [w_token EXCEPT ![w] = tok]
    /\ IF loop_continues(att, max_attempts)
         THEN /\ w_pc' = [w_pc EXCEPT ![w] = "put_log_events"]
              /\ w_attempt' = [w_attempt EXCEPT ![w] = att + 1]
              /\ w_log' = [w_log EXCEPT ![w] = send_log(@, tok)]
              /\ w_puts' = [w_puts EXCEPT ![w] = @ + 1]
              /\ w_result' = w_result
         ELSE /\ w_pc' = [w_pc EXCEPT ![w] = "done"]
              /\ w_result' = [w_result EXCEPT ![w] = "returned_none"]
              /\ UNCHANGED <<w_attempt, w_log, w_puts>>

\* writer w enters __send_log_with_retry (137) and issues its first put
RaceSubmit(w) ==
    /\ w_pc[w] = "ready"
    /\ RaceLoopHead(w, 0, w_token[w])
    /\ UNCHANGED <<logger, levels_probe, remote_group, writers, stream_token,
                   stream_events>>

\* the remote accepts the put of writer w; lines 145-147 adopt the token
RacePutAccepted(w) ==
    /\ w_pc[w] = "put_log_events"
    /\ w_log[w].sequenceToken = stream_token
    /\ LET response == [HTTPStatusCode |-> 200,
                        nextSequenceToken |-> RaceToken(Cardinality(Accepted) + 1)]
       IN  /\ stream_events' = stream_events \o w_log[w].logEvents
           /\ stream_token' = response.nextSequenceToken
           /\ request_is_valid(response)
           /\ w_token' = [w_token EXCEPT ![w] = adopt_token(response, @)]
           /\ w_result' = [w_result EXCEPT ![w] = "ok"]
           /\ w_pc' = [w_pc EXCEPT ![w] = "done"]
    /\ UNCHANGED <<logger, levels_probe, remote_group, writers, w_attempt, w_log,
                   w_puts>>

\* the remote rejects the put of writer w: put_log_events raises (148-153)
RacePutRejected(w) ==
    /\ w_pc[w] = "put_log_events"
    /\ w_log[w].sequenceToken # stream_token
    /\ IF budget_spent(w_attempt[w], max_attempts)
         THEN /\ w_result' = [w_result EXCEPT ![w] = "terminal"]
              /\ w_pc' = [w_pc EXCEPT ![w] = "done"]
         ELSE /\ w_pc' = [w_pc EXCEPT ![w] = "describe_log_streams"]
              /\ w_result' = w_result
    /\ UNCHANGED <<logger, levels_probe, remote_group, writers, w_attempt, w_token,
                   w_log, w_puts, stream_token, stream_events>>

\* describe_log_streams answers writer w (159-166), then the loop goes on
RaceDescribeAnswered(w) ==
    /\ w_pc[w] = "describe_log_streams"
    /\ RaceLoopHead(w, w_attempt[w], refresh_token(stream_token, w_token[w]))
    /\ UNCHANGED <<logger, levels_probe, remote_group, writers, stream_token,
                   stream_events>>

RaceNext ==
    \/ \E w \in writers : RaceSubmit(w)
    \/ \E w \in writers : RacePutAccepted(w)
    \/ \E w \in writers : RacePutRejected(w)
    \/ \E w \in writers : RaceDescribeAnswered(w)

SpecRace == RaceInit /\ [][RaceNext]_vars

\* every remote call of every writer answers, and every writer gets to run
SpecRaceLive == RaceInit /\ [][RaceNext]_vars /\ WF_vars(RaceNext)

\* ------------------------ one instance used for logging and for creation
\* The public calls of one instance run one after the other: a create call
\* starts only while no submission is under way.
FrameInit ==
    /\ InstanceInit({info_lower}, BOOLEAN, {2}, {1}, {DefaultBackoffMultiplier})
    /\ ProbeIdle
    /\ GroupIdle
    /\ RaceIdle

FrameCreateLogGroup(raise_if_exists) ==
    /\ pc = "idle"
    /\ CreateLogGroup(14, [isNone |-> TRUE, items |-> {}], raise_if_exists)

FrameCreateLogStream(raise_if_exists) ==
    /\ pc = "idle"
    /\ CreateLogStream(raise_if_exists)

FrameNext ==
    \/ Next
    \/ \E raise_if_exists \in BOOLEAN : FrameCreateLogGroup(raise_if_exists)
    \/ \E raise_if_exists \in BOOLEAN : FrameCreateLogStream(raise_if_exists)

SpecFrame == FrameInit /\ [][FrameNext]_vars

\* ------------------------------------------- every remote call answers
\* put_log_events and describe_log_streams return or raise: a request in
\* flight is eventually answered.
RemoteAnswers ==
    \/ PutRaises
    \/ \E response \in PutResponses : PutResponds(response)
    \/ DescribeRaises
    \/ \E stream \in DescribeStreams : DescribeResponds(stream)

TerminationInit ==
    /\ InstanceInit({info_lower}, {FALSE}, {1}, 0..MaxAttempts,
                    {DefaultBackoffMultiplier})
    /\ ProbeIdle
    /\ GroupIdle
    /\ RaceIdle

SpecTermination == TerminationInit /\ [][Next]_vars /\ WF_vars(RemoteAnswers)

\* The same instance in non-batching mode, over several backoff multipliers
BackoffInit ==
    /\ InstanceInit({info_lower}, {FALSE}, 1..MaxBatchSize, 0..MaxAttempts,
                    1..MaxBackoffMultiplier)
    /\ ProbeIdle
    /\ GroupIdle
    /\ RaceIdle

SpecBackoff == BackoffInit /\ [][Next]_vars

TypeOK ==
    /\ pc \in {"idle", "put_log_events", "describe_log_streams"}
    /\ sequence_token \in Tokens \cup {NoToken}
    /\ base_event_log.sequenceToken \in Tokens \cup {NoField}
    /\ batched_messages \in 0..MaxCalls
    /\ attempt \in 0..(max_attempts + 1)


\* ================================================================ claims
\* C1: with max_attempts = M >= 1, a submission whose every put attempt
\* raises ends in the terminal error after exactly M put attempts; the
\* attempt counter never exceeds max_attempts while a put is in flight.
C1_RetryExhaustion ==
    /\ (pc = "idle" /\ lastResult = "terminal" /\ max_attempts >= 1
          /\ callRaises = callPuts) => callPuts = max_attempts
    /\ (pc = "put_log_events" /\ max_attempts >= 1 /\ callRaises = callPuts - 1)
          => attempt <= max_attempts

\* C2: a submission ends either with a validated response, the held token
\* being that response's next token, or with a raised error; it never
\* returns normally without an accepted submission.
C2_OutcomeDichotomy ==
    (pc = "idle" /\ callPuts >= 1) =>
        \/ lastResult = "ok" /\ adopted # NoToken /\ sequence_token = adopted
        \/ lastResult \in {"terminal", "escaped"}

\* C3: with batches of size N, no remote failure and no flush, a fresh
\* instance has issued no put while fewer than N messages are recorded, and
\* exactly one put once the N-th message is recorded.
C3_BatchBoundary ==
    (use_batches /\ ~anyFailure /\ ~flushed) =>
        /\ recorded < batch_size => totalPuts = 0
        /\ recorded = batch_size => totalPuts = 1

C3_Witness ==
    /\ use_batches /\ ~anyFailure /\ ~flushed
    /\ batch_size >= 2 /\ recorded = batch_size
    /\ pc = "idle" /\ lastResult = "ok"

\* C4: with batches, right after a submission triggered by the batch size
\* has succeeded, the buffer of log events is empty and the counter is zero.
C4_BufferCleared ==
    (use_batches /\ pc = "idle" /\ lastOp = "log" /\ lastResult = "ok") =>
        (base_event_log.logEvents = <<>> /\ batched_messages = 0)

\* C5: flush() called while the buffer holds k >= 1 events, with no remote
\* failure, issues exactly one put carrying exactly those events in order,
\* and leaves the buffer empty and the counter zero.
C5_FlushPending ==
    (lastOp = "flush" /\ Len(callBuf) >= 1 /\ ~anyFailure) =>
        /\ callPuts = 1
        /\ base_event_log.logEvents = IF pc = "idle" THEN <<>> ELSE callBuf
        /\ pc = "idle" => batched_messages = 0

\* C6: flush() with no events pending (the counter is zero, which covers an
\* empty buffer) issues no remote call and leaves buffer, counter and held
\* token as they were.
C6_FlushEmptyNoop ==
    [][(pc = "idle" /\ batched_messages = 0 /\ lastOp' = "flush" /\ nCalls' = nCalls + 1)
          => (pc' = "idle" /\ UNCHANGED <<instance, totalPuts>> /\ callDescribes' = 0)]_vars

C6_Witness ==
    /\ lastOp = "flush" /\ lastResult = "noop" /\ pc = "idle"
    /\ sequence_token # NoToken /\ base_event_log.logEvents = <<>>

\* C7: once a submission has succeeded with next token T, and until a
\* refresh query is answered, every put in flight carries sequenceToken = T.
C7_TokenAdoption ==
    (pc = "put_log_events" /\ adopted # NoToken) =>
        base_event_log.sequenceToken = adopted

C7_Witness ==
    /\ pc = "put_log_events" /\ adopted = "T2" /\ totalPuts >= 3
    /\ base_event_log.sequenceToken = "T2"

\* C8: while the instance has never held a token, every put in flight has
\* no sequenceToken field.
C8_FirstAppendOmitsToken ==
    (pc = "put_log_events" /\ ~everHeld) =>
        base_event_log.sequenceToken = NoField

C8_Witness ==
    /\ pc = "put_log_events" /\ ~everHeld /\ callDescribes >= 1
    /\ base_event_log.sequenceToken = NoField

\* C9: after a submission has ended in the terminal error, the buffer is
\* empty and the counter zero, and no later put carries an event of that
\* batch.
C9_DroppedOnExhaustion ==
    /\ (pc = "idle" /\ lastResult = "terminal") =>
           (base_event_log.logEvents = <<>> /\ batched_messages = 0)
    /\ pc = "put_log_events" => Range(base_event_log.logEvents) \cap dropped = {}

\* C10: an exception escapes a submission only when the attempt budget is
\* spent, and it is the terminal error of the last put failure.
C10_OnlyExhaustionEscapes ==
    (pc = "idle" /\ lastResult \in {"terminal", "escaped"}) =>
        (lastResult = "terminal" /\ attempt > max_attempts)


\* C12 (as claimed): the configured level is validated at construction, so
\* every instance has a recognised level and no log call raises a level error.
C12_ValidatedAtConstruction ==
    nCalls >= 1 => (LevelIsKnown(log_level) /\ lastResult # "level_error")

\* C12 (amended): an instance with an unrecognised level can be constructed;
\* a log call raises the level error exactly when the configured level,
\* upper-cased, is not a key of level_lookup, and on such an instance nothing
\* is ever buffered or sent.
C12_LevelErrorPerCall ==
    /\ lastOp = "log" =>
           (lastResult = "level_error" <=> str_upper(log_level) \notin DOMAIN level_lookup)
    /\ str_upper(log_level) \notin DOMAIN level_lookup =>
           (base_event_log.logEvents = <<>> /\ batched_messages = 0 /\ totalPuts = 0)

C12_Witness ==
    lastOp = "log" /\ lastResult = "level_error" /\ nCalls >= 2 /\ flushed

\* C14: a log call whose level ranks below the configured level buffers
\* nothing, issues no remote call and leaves buffer, counter and held token
\* unchanged, with and without batches.
C14_FilteredNoEffect ==
    [][\A level \in MessageLevels :
         (/\ Log(level)
          /\ str_upper(log_level) \in DOMAIN level_lookup
          /\ level_lookup[str_upper(level)] < level_lookup[str_upper(log_level)])
         => (/\ pc' = "idle"
             /\ UNCHANGED <<instance, totalPuts, recorded>>
             /\ callPuts' = 0
             /\ callDescribes' = 0)]_vars

C14_Witness ==
    /\ lastOp = "log" /\ lastResult = "filtered"
    /\ use_batches /\ batched_messages = 1 /\ Len(base_event_log.logEvents) = 1

\* C15: without batches every put in flight carries exactly one event, the
\* message of the log call that triggered it, and the buffer is empty once
\* the call is over, also after calls that ended in the terminal error.
C15_SingleEventBatches ==
    ~use_batches =>
        /\ pc = "put_log_events" => base_event_log.logEvents = <<recorded>>
        /\ pc = "idle" => base_event_log.logEvents = <<>>

RECURSIVE SleepBudget(_, _)
SleepBudget(attempts, multiplier) ==
    IF attempts <= 0 THEN 0
    ELSE attempts * multiplier + SleepBudget(attempts - 1, multiplier)

C13_NameOf(s) ==
    IF \E n \in MessageLevels : s \in CaseVariants(n)
      THEN CHOOSE n \in MessageLevels : s \in CaseVariants(n)
      ELSE <<>>

C13_Rank(name) ==
    CASE name = DEBUG -> 10
      [] name = INFO -> 20
      [] name = WARNING -> 30
      [] name = ERROR -> 40
      [] name = CRITICAL -> 50

\* C13: for every message level and every configured level that is one of
\* DEBUG, INFO, WARNING, ERROR, CRITICAL in any letter case, the filter
\* answers true iff rank(message level) >= rank(configured level).
C13_LevelFilter ==
    (probe_out.op = "should_record_log" /\ C13_NameOf(log_level) # <<>>) =>
        /\ ~probe_out.raised
        /\ probe_out.value = (C13_Rank(probe_level) >= C13_Rank(C13_NameOf(log_level)))

C13_Witness ==
    /\ probe_out.op = "should_record_log" /\ ~probe_out.raised
    /\ log_level = <<87, 97, 114, 110, 105, 110, 103>>
    /\ probe_level = INFO /\ probe_out.value = FALSE

C11_AllowedDays ==
    {1, 3, 5, 7, 14, 30, 90, 120, 150, 180, 365, 400, 545, 731, 1827, 3653}

\* C11: create_log_group with retention_days outside the allowed set fails
\* with ValueError and has made no remote call; in particular the group has
\* not been created remotely.
C11_RetentionValidatedFirst ==
    (create_out.op = "create_log_group"
       /\ create_out.retention_days \notin C11_AllowedDays) =>
        /\ create_out.result = "ValueError"
        /\ remote_calls = <<>>
        /\ group_exists = create_out.existed

\* C16 (as claimed): on an existing group / stream the create call raises
\* RuntimeError when raise_if_exists is true and returns normally when it is
\* false; on a non-existing one it succeeds.
C16_AlreadyExistsHandling ==
    create_out.op \in {"create_log_group", "create_log_stream"} =>
        create_out.result =
            IF ~create_out.existed THEN "returned"
            ELSE IF create_out.raise_if_exists THEN "RuntimeError"
            ELSE "returned"

\* C16 (amended): as claimed, except that create_log_group on a non-existing
\* group succeeds only for retention_days in the allowed set and raises
\* ValueError otherwise.
C16_AlreadyExistsHandlingAmended ==
    create_out.op \in {"create_log_group", "create_log_stream"} =>
        create_out.result =
            IF create_out.existed
              THEN IF create_out.raise_if_exists THEN "RuntimeError" ELSE "returned"
            ELSE IF create_out.op = "create_log_group"
                    /\ create_out.retention_days \notin C11_AllowedDays
              THEN "ValueError"
            ELSE "returned"

C16_Witness ==
    /\ create_out.op = "create_log_stream" /\ create_out.existed
    /\ ~create_out.raise_if_exists /\ create_out.result = "returned"

\* C19: after create_log_group(retention_days = r, tags = t) has returned
\* for a group that did not exist, the group exists with retention r, and
\* its tags are t when t is a non-empty mapping (no tag call otherwise); the
\* remote calls were create group, put retention, tag group, in this order.
C19_RetentionAndTagsApplied ==
    (create_out.op = "create_log_group" /\ create_out.result = "returned"
       /\ ~create_out.existed) =>
        /\ create_out.retention_days \in C11_AllowedDays
        /\ group_exists
        /\ group_retention = create_out.retention_days
        /\ IF ~create_out.tags.isNone /\ create_out.tags.items # {}
             THEN /\ group_tags = create_out.tags.items
                  /\ remote_calls = <<"create_log_group", "put_retention_policy",
                                      "tag_log_group">>
             ELSE /\ group_tags = {}
                  /\ remote_calls = <<"create_log_group", "put_retention_policy">>

C19_Witness ==
    /\ create_out.op = "create_log_group" /\ create_out.result = "returned"
    /\ ~create_out.existed /\ create_out.retention_days = 3
    /\ group_retention = 3 /\ group_tags = {<<"test", "abc">>}


\* C18: two writers submit one batch each to the same empty stream, with
\* max_attempts >= 1. Neither writer raises; once both are done the stream
\* holds both batches whole, one writer was accepted at its first put and
\* the other at its second, after one rejection and one refresh.
C18_TwoWriterRace ==
    (writers = {1, 2} /\ max_attempts >= 1) =>
        /\ \A w \in writers : w_result[w] \in {"pending", "ok"}
        /\ (\A w \in writers : w_pc[w] = "done") =>
              /\ stream_events \in {BatchOf(1) \o BatchOf(2), BatchOf(2) \o BatchOf(1)}
              /\ \E first \in writers : \E second \in writers \ {first} :
                    /\ w_puts[first] = 1 /\ w_attempt[first] = 1
                    /\ w_puts[second] = 2 /\ w_attempt[second] = 2
                    /\ w_token[second] = stream_token

C18_Witness ==
    /\ writers = {1, 2} /\ max_attempts = 1
    /\ \A w \in writers : w_pc[w] = "done" /\ w_result[w] = "ok"
    /\ stream_events = BatchOf(2) \o BatchOf(1)
    /\ w_puts[1] = 2


\* C21: a put that raises with attempts left is followed by a sleep, then
\* one refresh query, then the next put: while a put or a refresh is in
\* flight every raise so far had exactly one refresh, a submission is never
\* over between a refresh and the next put, and after the final failure or
\* a success no further refresh was issued.
C21_RetryOrdering ==
    /\ pc = "put_log_events" => callDescribes = callRaises
    /\ pc = "describe_log_streams" =>
           /\ callDescribes = callRaises
           /\ attempt <= max_attempts
           /\ lastSleep = waiting_seconds(attempt, backoff_multiplier)
    /\ (pc = "idle" /\ callPuts >= 1) =>
           /\ lastResult # "escaped"
           /\ callDescribes = IF lastResult = "terminal" THEN callRaises - 1
                              ELSE callRaises

\* C22: when a put returns a response with a status other than 200 or
\* without a next token, the held token, the time slept and the number of
\* refresh queries stay as they are; if the attempt budget allows it the
\* next put goes out at once with the same events and the attempt counter
\* one higher, otherwise the submission returns without a response.
C22_InvalidResponsePath ==
    [][\A response \in PutResponses :
         (/\ PutResponds(response)
          /\ (response.HTTPStatusCode # 200 \/ response.nextSequenceToken = NoField))
         => /\ UNCHANGED <<sequence_token, callSlept, callDescribes, callRaises>>
            /\ IF attempt <= max_attempts
                 THEN /\ pc' = "put_log_events"
                      /\ attempt' = attempt + 1
                      /\ callPuts' = callPuts + 1
                      /\ base_event_log'.logEvents = base_event_log.logEvents
                 ELSE /\ pc' = "idle"
                      /\ lastResult' = "returned_none"]_vars

C22_Witness ==
    /\ pc = "put_log_events" /\ attempt = 2 /\ callPuts = 2
    /\ callRaises = 0 /\ callDescribes = 0 /\ callSlept = 0
    /\ sequence_token = "T1"

\* C23: when a refresh query is answered, the held token becomes the
\* stream's upload token if the stream reports one and stays exactly as it
\* was (unset if it was unset) if the stream reports none.
C23_TokenRefresh ==
    [][\A stream \in DescribeStreams :
         DescribeResponds(stream) =>
             sequence_token' = (IF stream \in Tokens THEN stream ELSE sequence_token)]_vars

C23_Witness ==
    /\ pc = "put_log_events" /\ callDescribes = 2 /\ adopted = NoToken
    /\ sequence_token = "T2" /\ base_event_log.sequenceToken = "T2"


\* C24: the held token is always None or one token, and it changes only in
\* a step that takes a put response with status 200 and a next token, or
\* that takes the answer of a refresh query; log calls (buffered, filtered
\* or sending), flush, raising and invalid puts, create_log_group and
\* create_log_stream leave it unchanged.
C24_TokenFrame ==
    /\ [](sequence_token \in Tokens \cup {NoToken})
    /\ [][sequence_token' # sequence_token =>
            \/ \E response \in PutResponses :
                  /\ response.HTTPStatusCode = 200
                  /\ response.nextSequenceToken # NoField
                  /\ PutResponds(response)
            \/ \E stream \in DescribeStreams : DescribeResponds(stream)]_vars

C24_Witness ==
    /\ sequence_token = "T2" /\ pc = "idle"
    /\ create_out.op = "create_log_group" /\ create_out.existed
    /\ lastResult = "buffered" /\ callDescribes = 0


\* C25: the per-call filter and make_handler both reject the configured
\* level with ValueError exactly when it is not DEBUG, INFO, WARNING, ERROR
\* or CRITICAL in some letter case, so they agree on every string.
C25_FiveNamesOnly ==
    /\ probe_out.op = "should_record_log" =>
           (probe_out.raised <=> C13_NameOf(log_level) = <<>>)
    /\ probe_out.op = "make_handler" =>
           (probe_out.raised <=> C13_NameOf(log_level) = <<>>)


\* C26: with batches and no remote failure every put is accepted, so a put
\* in flight carries only events that no earlier put carried: the first
\* recorded event, which went out with the first put, is in no later put,
\* and no put carries more events than one batch.
C26_ExactlyOnceHandOff ==
    (use_batches /\ ~anyFailure /\ pc = "put_log_events") =>
        /\ totalPuts >= 2 => 1 \notin Range(base_event_log.logEvents)
        /\ Len(base_event_log.logEvents) <= batch_size

\* C27: with batches, a log call that has recorded its message and ends
\* with at least batch_size events counted as pending has issued a put
\* during that call, also after an earlier submission failed terminally.
C27_AutoSubmitSurvivesFailure ==
    (/\ use_batches /\ pc = "idle" /\ lastOp = "log"
     /\ lastResult \notin {"filtered", "level_error"}
     /\ batched_messages >= batch_size) => callPuts >= 1


\* C28: for every max_attempts >= 0, one submission issues at most
\* max_attempts + 1 puts and at most max_attempts refresh queries, and, as
\* every remote call returns or raises, a submission under way ends.
C28_Termination ==
    /\ [](callPuts <= max_attempts + 1 /\ callDescribes <= max_attempts)
    /\ (pc # "idle") ~> (pc = "idle")

C28_Witness ==
    /\ pc = "idle" /\ lastResult = "terminal" /\ max_attempts = 2
    /\ callPuts = 3 /\ callDescribes = 2 /\ callRaises = 3


\* C29: W writers share one stream that is empty at first, each submits one
\* batch, and max_attempts >= W - 1. Under every interleaving no writer
\* ends with an error or without a response, every writer's submission is
\* eventually accepted, and the stream then holds each batch exactly once,
\* as one contiguous block.
C29_MultiWriterProgress ==
    /\ [](max_attempts >= Cardinality(writers) - 1 =>
            \A w \in writers : w_result[w] \in {"pending", "ok"})
    /\ <>[](max_attempts >= Cardinality(writers) - 1 =>
              /\ \A w \in writers : w_pc[w] = "done" /\ w_result[w] = "ok"
              /\ Len(stream_events) = 2 * Cardinality(writers)
              /\ \A w \in writers : \E i \in 1..(Len(stream_events) - 1) :
                    SubSeq(stream_events, i, i + 1) = BatchOf(w))

C29_Witness ==
    /\ writers = {1, 2, 3} /\ max_attempts = 2
    /\ \A w \in writers : w_pc[w] = "done" /\ w_result[w] = "ok"
    /\ w_puts[1] = 3 /\ w_puts[2] = 2 /\ w_puts[3] = 1
    /\ stream_events = BatchOf(3) \o BatchOf(2) \o BatchOf(1)


\* C30: create_log_group on a group that already exists issues the create
\* call only, no put_retention_policy and no tag_log_group, whatever
\* retention_days, tags and raise_if_exists are, and leaves the group's
\* retention and tags as they were; with raise_if_exists false it returns
\* normally, also for a retention_days outside the allowed set.
C30_ExistingGroupUntouched ==
    [][\A retention_days \in RetentionInputs, tags \in TagInputs,
          raise_if_exists \in BOOLEAN :
         (group_exists /\ CreateLogGroup(retention_days, tags, raise_if_exists))
         => /\ UNCHANGED <<group_exists, group_retention, group_tags>>
            /\ remote_calls' = <<"create_log_group">>
            /\ ~raise_if_exists => create_out'.result = "returned"]_vars

C30_Witness ==
    /\ create_out.op = "create_log_group" /\ create_out.existed
    /\ ~create_out.raise_if_exists /\ create_out.result = "returned"
    /\ create_out.retention_days = 4 /\ create_out.tags.isNone
    /\ group_retention = 3 /\ group_tags = {<<"test", "abc">>}

====
